---- MODULE Spec2Model ----
(***************************************************************************)
(* Account administration of ds2api (routes/admin/config.py): the account  *)
(* list CONFIG["accounts"], the handlers that mutate it, the rotation      *)
(* queue that is rebuilt from it, and the redacted views.                  *)
(*                                                                         *)
(* Strings are sequences of one-character strings, so that str.strip() and *)
(* slicing are computed and not assumed.  An account is a Python dict over *)
(* the four account keys: a record in which a missing key holds None.      *)
(***************************************************************************)
EXTENDS Integers, Sequences, FiniteSets, TLC

VARIABLES
    accounts,     \* CONFIG["accounts"]: a sequence of account dicts
    queue,        \* the rotation queue state that init_account_queue() builds
    rebuiltFrom,  \* the account list the last init_account_queue() call read
    saved,        \* the account list of the last save_config(CONFIG)
    pending,      \* handlers suspended at `await request.json()`, per handler
    resp,         \* the last response of a mutating handler
    view,         \* the last response of get_config or list_accounts
    callers,      \* the outbound callers of next(): where each one is in its call
    history       \* what next() selected so far, while nothing had failed

store == <<accounts, queue, rebuiltFrom, saved>>

rotation == <<callers, history>>

vars == <<accounts, queue, rebuiltFrom, saved, pending, resp, view, callers, history>>

----------------------------------------------------------------------------
(* Bounds of the model *)

MaxAccounts == 2   \* longest account list a request may build
MaxPending == 1    \* handlers suspended at their await at the same time
MaxIncoming == 1   \* longest account list of a POST /config body in MergeSpec
MaxVisited == 3    \* selections of next() that QueueSpec's history keeps

----------------------------------------------------------------------------
(* Strings and dicts *)

Keys == {"email", "mobile", "password", "token"}

None == <<"None">>   \* the value of a key the dict does not hold; no string

Has(d, k) == d[k] # None

Whitespace == {" "}

\* dict.get(k, "")
Get(d, k) == IF Has(d, k) THEN d[k] ELSE <<>>

\* dict.get(k) == s for a string s (None, the value of a missing key, equals no string)
GetEq(d, k, s) == Has(d, k) /\ d[k] = s

RECURSIVE LStrip(_)
LStrip(s) == IF s # <<>> /\ Head(s) \in Whitespace THEN LStrip(Tail(s)) ELSE s

RECURSIVE RStrip(_)
RStrip(s) ==
    IF s # <<>> /\ s[Len(s)] \in Whitespace THEN RStrip(SubSeq(s, 1, Len(s) - 1)) ELSE s

\* str.strip()
Strip(s) == RStrip(LStrip(s))

\* The strings of the model: two emails or mobiles, two passwords, two tokens
A == <<"a">>
B == <<"b">>
Pw == <<"p">>
Pw2 == <<"q">>
Tok == <<"t">>
Tok2 == <<"u">>

Dict(e, m, p, t) == [email |-> e, mobile |-> m, password |-> p, token |-> t]

Dicts(E, M, P, T) == {Dict(e, m, p, t) : e \in E, m \in M, p \in P, t \in T}

SeqsUpTo(S, n) == UNION {[1..k -> S] : k \in 0..n}

RemoveAt(s, i) == SubSeq(s, 1, i - 1) \o SubSeq(s, i + 1, Len(s))

Min(a, b) == IF a <= b THEN a ELSE b

Max(a, b) == IF a >= b THEN a ELSE b

----------------------------------------------------------------------------
(* core.auth, imported at config.py line 9.  Its code is not among the     *)
(* sources: these follow the words of the specification.                   *)

\* "Identifier: email if present, else mobile"
get_account_identifier(acc) ==
    IF Get(acc, "email") # <<>> THEN acc["email"] ELSE Get(acc, "mobile")

Identifiers(accs) == [i \in 1..Len(accs) |-> get_account_identifier(accs[i])]

\* rebuild(): the ordered identifiers of the current store, a full replace.  No
\* rotation happens between two rebuilds of the administrative layer, so the
\* rotation position and the cooldowns a rebuild preserves are the initial ones.
init_account_queue(accs) ==
    [ids |-> Identifiers(accs), cursor |-> 0, cooling |-> {}, elapsed |-> {}]

----------------------------------------------------------------------------
(* The mutating handlers *)

NoResp == [op |-> "none", status |-> 0, detail |-> "", total |-> 0, effects |-> <<>>]

NoView == [op |-> "none", items |-> <<>>, total |-> 0, page |-> 0, page_size |-> 0,
           total_pages |-> 0]

\* raise HTTPException(...): nothing after the raise runs
Raise(op, code, why) ==
    /\ resp' = [op |-> op, status |-> code, detail |-> why, total |-> 0,
                effects |-> <<>>]
    /\ UNCHANGED store

\* The tail the three mutating handlers share: the list is changed, then
\* init_account_queue(), then save_config(CONFIG), then the response.
CommitNoRebuild(op, accs) ==
    /\ accounts' = accs
    /\ saved' = accs
    /\ resp' = [op |-> op, status |-> 200, detail |-> "", total |-> Len(accs),
                effects |-> <<"mutate", "save">>]
    /\ UNCHANGED <<queue, rebuiltFrom>>

Commit(op, accs) ==
    /\ accounts' = accs
    /\ queue' = init_account_queue(accs)
    /\ rebuiltFrom' = accs
    /\ saved' = accs
    /\ resp' = [op |-> op, status |-> 200, detail |-> "", total |-> Len(accs),
                effects |-> <<"mutate", "rebuild", "save">>]

\* A handler reaches `data = await request.json()` and yields to the event loop.
\* The JSON it is resumed with is the handler's own: it is drawn at the resume.
AwaitJson(op) ==
    /\ pending["add_account"] + pending["update_config"] < MaxPending
    /\ pending' = [pending EXCEPT ![op] = @ + 1]
    /\ UNCHANGED <<store, resp, view, rotation>>

\* The `for acc in CONFIG.get("accounts", [])` loop of add_account: the detail of
\* the first raise, "" when the loop ends without one
RECURSIVE AddConflict(_, _, _)
AddConflict(accs, email, mobile) ==
    IF accs = <<>> THEN ""
    ELSE IF email # <<>> /\ GetEq(Head(accs), "email", email) THEN "email_exists"
    ELSE IF mobile # <<>> /\ GetEq(Head(accs), "mobile", mobile) THEN "mobile_exists"
    ELSE AddConflict(Tail(accs), email, mobile)

\* new_account: only the non-empty fields become keys
NewAccount(email, mobile, password, token) ==
    LET v == [email |-> email, mobile |-> mobile, password |-> password, token |-> token]
    IN  [k \in Keys |-> IF v[k] # <<>> THEN v[k] ELSE None]

\* A body that appends before it looks for the duplicate
AddAccountBodyAppendFirst(data) ==
    LET email == Strip(Get(data, "email"))
        mobile == Strip(Get(data, "mobile"))
        password == Strip(Get(data, "password"))
        token == Strip(Get(data, "token"))
    IN  IF email = <<>> /\ mobile = <<>>
        THEN Raise("add_account", 400, "need_email_or_mobile")
        ELSE IF AddConflict(accounts, email, mobile) # ""
        THEN /\ accounts' = Append(accounts, NewAccount(email, mobile, password, token))
             /\ resp' = [op |-> "add_account", status |-> 400,
                         detail |-> AddConflict(accounts, email, mobile),
                         total |-> 0, effects |-> <<"mutate">>]
             /\ UNCHANGED <<queue, rebuiltFrom, saved>>
        ELSE Commit("add_account",
                    Append(accounts, NewAccount(email, mobile, password, token)))

\* add_account, from the await to the response: one run of the event loop
AddAccountBody(data) ==
    LET email == Strip(Get(data, "email"))
        mobile == Strip(Get(data, "mobile"))
        password == Strip(Get(data, "password"))
        token == Strip(Get(data, "token"))
    IN  IF email = <<>> /\ mobile = <<>>
        THEN Raise("add_account", 400, "need_email_or_mobile")
        ELSE IF AddConflict(accounts, email, mobile) # ""
        THEN Raise("add_account", 400, AddConflict(accounts, email, mobile))
        ELSE Commit("add_account",
                    Append(accounts, NewAccount(email, mobile, password, token)))

add_account(data) ==
    /\ pending["add_account"] > 0
    /\ Len(accounts) < MaxAccounts
    /\ pending' = [pending EXCEPT !["add_account"] = @ - 1]
    /\ AddAccountBody(data)
    /\ UNCHANGED <<view, rotation>>

\* existing = {get_account_identifier(a): a for a in ...}: a later account with
\* the same identifier replaces an earlier one in the dict
InExisting(accs, id) == \E i \in 1..Len(accs) : get_account_identifier(accs[i]) = id

Existing(accs, id) ==
    LET hits == {i \in 1..Len(accs) : get_account_identifier(accs[i]) = id}
    IN  accs[CHOOSE i \in hits : \A j \in hits : j <= i]

\* A merge that keeps the stored password over a new one
MergeAccountKeepOld(accs, acc) ==
    LET acc_id == get_account_identifier(acc)
        old == Existing(accs, acc_id)
    IN  IF InExisting(accs, acc_id)
        THEN [acc EXCEPT !["password"] = Get(old, "password"),
                         !["token"] = Get(old, "token")]
        ELSE acc

\* Lines 72-77: one incoming account after the merge
MergeAccount(accs, acc) ==
    LET acc_id == get_account_identifier(acc)
        old == Existing(accs, acc_id)
        withPw == IF Get(acc, "password") = <<>>
                  THEN [acc EXCEPT !["password"] = Get(old, "password")]
                  ELSE acc
        withTok == IF Get(withPw, "token") = <<>>
                   THEN [withPw EXCEPT !["token"] = Get(old, "token")]
                   ELSE withPw
    IN  IF InExisting(accs, acc_id) THEN withTok ELSE acc

\* update_config, from the await to the response (the keys and claude_mapping
\* entries of CONFIG are not part of the account state and are left out)
UpdateConfigBody(data) ==
    IF "accounts" \in data["keys"]
    THEN Commit("update_config",
                [i \in 1..Len(data["accounts"]) |->
                    MergeAccount(accounts, data["accounts"][i])])
    ELSE /\ saved' = accounts
         /\ resp' = [op |-> "update_config", status |-> 200, detail |-> "",
                     total |-> 0, effects |-> <<"save">>]
         /\ UNCHANGED <<accounts, queue, rebuiltFrom>>

update_config(data) ==
    /\ pending["update_config"] > 0
    /\ pending' = [pending EXCEPT !["update_config"] = @ - 1]
    /\ UpdateConfigBody(data)
    /\ UNCHANGED <<view, rotation>>

\* A loop that keeps the last match
DeleteMatchLast(accs, identifier) ==
    LET hits == {i \in 1..Len(accs) :
                    GetEq(accs[i], "email", identifier)
                    \/ GetEq(accs[i], "mobile", identifier)}
    IN  IF hits = {} THEN 0 ELSE CHOOSE i \in hits : \A j \in hits : j <= i

\* The enumerate loop of delete_account: the index of the first account whose
\* email or mobile equals the path parameter, 0 when there is none
DeleteMatch(accs, identifier) ==
    LET hits == {i \in 1..Len(accs) :
                    GetEq(accs[i], "email", identifier)
                    \/ GetEq(accs[i], "mobile", identifier)}
    IN  IF hits = {} THEN 0 ELSE CHOOSE i \in hits : \A j \in hits : i <= j

\* delete_account has no await: the whole handler is one run
delete_account(identifier) ==
    /\ IF DeleteMatch(accounts, identifier) = 0
       THEN Raise("delete_account", 404, "not_found")
       ELSE Commit("delete_account",
                   RemoveAt(accounts, DeleteMatch(accounts, identifier)))
    /\ UNCHANGED <<pending, view, rotation>>

----------------------------------------------------------------------------
(* The redacted views *)

PreviewLen == 20    \* [:20]
MaxPageSize == 100  \* min(100, page_size)

Ellipsis == <<".", ".", ".">>

\* acc.get("token", "")[:20] + "..." if acc.get("token") else ""
TokenPreview(acc) ==
    IF Get(acc, "token") # <<>>
    THEN SubSeq(Get(acc, "token"), 1, Min(PreviewLen, Len(Get(acc, "token")))) \o Ellipsis
    ELSE <<>>

\* safe_acc
SafeAccount(acc) ==
    [email |-> Get(acc, "email"),
     mobile |-> Get(acc, "mobile"),
     has_password |-> Get(acc, "password") # <<>>,
     has_token |-> Get(acc, "token") # <<>>,
     token_preview |-> TokenPreview(acc)]

Reversed(s) == [i \in 1..Len(s) |-> s[Len(s) + 1 - i]]

\* s[start:end] for 0 <= start <= end
Slice(s, start, end) == SubSeq(s, start + 1, Min(end, Len(s)))

get_config ==
    /\ view' = [op |-> "get_config",
                items |-> [i \in 1..Len(accounts) |-> SafeAccount(accounts[i])],
                total |-> Len(accounts), page |-> 0, page_size |-> 0,
                total_pages |-> 0]
    /\ UNCHANGED <<store, pending, resp, rotation>>

list_accounts(page0, page_size0) ==
    LET total == Len(accounts)
        page == Max(1, page0)
        page_size == Max(1, Min(MaxPageSize, page_size0))
        total_pages == IF total > 0 THEN (total + page_size - 1) \div page_size ELSE 1
        start == (page - 1) * page_size
        page_accounts == Slice(Reversed(accounts), start, start + page_size)
    IN  /\ view' = [op |-> "list_accounts",
                    items |-> [i \in 1..Len(page_accounts) |->
                                  SafeAccount(page_accounts[i])],
                    total |-> total, page |-> page, page_size |-> page_size,
                    total_pages |-> total_pages]
        /\ UNCHANGED <<store, pending, resp, rotation>>

----------------------------------------------------------------------------
(* The rotation queue and the token lifecycle (specification sections 4.2, *)
(* 4.3 and 5).  Their code, core.auth, is not among the sources: this part *)
(* follows the words of the specification.  Time is abstract: a cooldown   *)
(* that has run out is an identifier in queue.elapsed.                     *)

Callers == {"c1", "c2"}

\* pc: idle, ensuring (a candidate is selected and its token is being ensured),
\* holding (next() returned the account) or none (next() failed)
Idle == [pc |-> "idle", cand |-> <<>>, tried |-> {}]

\* visited: the identifiers selected, in order, while nothing had failed;
\* failed: an ensure_token failed or a failure was reported;
\* skipped: a pass went over a Cooling entry and selected a later one
NoHistory == [visited |-> <<>>, failed |-> FALSE, skipped |-> FALSE]

\* The queue holds identifiers: the account an identifier refers to
AccountIndex(id) == CHOOSE i \in 1..Len(accounts) : get_account_identifier(accounts[i]) = id

\* Cooling: failed and the cooldown has not run out
Cooling(q, id) == id \in q["cooling"] /\ id \notin q["elapsed"]

\* The positions of the queue in circular order, starting at the cursor
ScanOrder(q) == [k \in 1..Len(q["ids"]) |-> ((q["cursor"] + k - 1) % Len(q["ids"])) + 1]

\* A cursor that stays on the selected position
CursorAfterStuck(q, pos) == pos - 1

\* The cursor after the entry at position pos was selected
CursorAfter(q, pos) == pos % Len(q["ids"])

\* A pass that does not look at the cooldowns
UsableAnyState(q, tried, id) == id \notin tried

\* An entry the pass may select: not Cooling, not tried in this call
Usable(q, tried, id) == ~Cooling(q, id) /\ id \notin tried

\* The pass of next() over the entries, under the lock: from the cursor on,
\* skip the entries Cooling or already tried in this call, promote those whose
\* cooldown has run out, select the first one left
Scan(q, tried) ==
    LET order == ScanOrder(q)
        usable == {k \in 1..Len(order) : Usable(q, tried, q["ids"][order[k]])}
        found == usable # {}
        stop == IF found THEN CHOOSE k \in usable : \A j \in usable : k <= j
                ELSE Len(order)
        passed == {q["ids"][order[k]] : k \in 1..stop}
    IN  [found |-> found,
         pos |-> IF found THEN order[stop] ELSE 0,
         promoted |-> passed \cap q["elapsed"],
         skipped |-> \E id \in passed : Cooling(q, id)]

\* A failed candidate that the call does not remember
TriedAfterForgetful(tried, id) == tried

\* The identifiers tried in this call once id has failed
TriedAfter(tried, id) == tried \cup {id}

\* The queue, the caller and the history after a pass by caller c that
\* excludes `tried`: the candidate is selected, or NoUsableAccount
Select(c, q, tried, hist) ==
    LET scan == Scan(q, tried)
    IN  /\ queue' = [q EXCEPT
                        !["cooling"] = @ \ scan["promoted"],
                        !["elapsed"] = @ \ scan["promoted"],
                        !["cursor"] = IF scan["found"] THEN CursorAfter(q, scan["pos"])
                                      ELSE @]
        /\ callers' = [callers EXCEPT ![c] =
              IF scan["found"]
              THEN [pc |-> "ensuring", cand |-> q["ids"][scan["pos"]], tried |-> tried]
              ELSE [pc |-> "none", cand |-> <<>>, tried |-> {}]]
        /\ history' =
              IF hist["failed"]
              THEN [hist EXCEPT !["skipped"] = @ \/ (scan["found"] /\ scan["skipped"])]
              ELSE [hist EXCEPT
                      !["visited"] = IF scan["found"] /\ Len(@) < MaxVisited
                                     THEN Append(@, q["ids"][scan["pos"]]) ELSE @]

\* A caller enters next(): the first pass
next_select(c) ==
    /\ callers[c]["pc"] \in {"idle", "none"}
    /\ Select(c, queue, {}, history)
    /\ UNCHANGED <<accounts, rebuiltFrom, saved, pending, resp, view>>

\* ensure_token on an account: a present token is returned as it is; otherwise
\* a password is exchanged for a token by a login that may fail; otherwise the
\* account is unauthenticated
EnsureOk(acc, login_ok) ==
    Get(acc, "token") # <<>> \/ (Get(acc, "password") # <<>> /\ login_ok)

\* The account after an ensure_token that succeeded: a new token is stored
Ensured(acc) == IF Get(acc, "token") # <<>> THEN acc ELSE [acc EXCEPT !["token"] = Tok2]

\* next() after the pass: ensure_token outside the lock, then under the lock
\* again the account is returned, or the identifier is cooled down and the
\* next candidate is selected
next_finish(c, login_ok) ==
    LET me == callers[c]
        i == AccountIndex(me["cand"])
    IN  /\ me["pc"] = "ensuring"
        /\ IF EnsureOk(accounts[i], login_ok)
           THEN /\ accounts' = [accounts EXCEPT ![i] = Ensured(@)]
                /\ callers' = [callers EXCEPT ![c]["pc"] = "holding", ![c]["tried"] = {}]
                /\ UNCHANGED <<queue, history>>
           ELSE /\ Select(c,
                          [queue EXCEPT !["cooling"] = @ \cup {me["cand"]},
                                        !["elapsed"] = @ \ {me["cand"]}],
                          TriedAfter(me["tried"], me["cand"]),
                          [history EXCEPT !["failed"] = TRUE, !["visited"] = <<>>])
                /\ UNCHANGED accounts
        /\ UNCHANGED <<rebuiltFrom, saved, pending, resp, view>>

\* invalidate(account): the next ensure_token logs in again
invalidate(accs, i) == [accs EXCEPT ![i]["token"] = None]

\* The caller's token was rejected downstream
report_failure(c) ==
    LET id == callers[c]["cand"]
    IN  /\ callers[c]["pc"] = "holding"
        /\ queue' = [queue EXCEPT !["cooling"] = @ \cup {id}, !["elapsed"] = @ \ {id}]
        /\ accounts' = invalidate(accounts, AccountIndex(id))
        /\ callers' = [callers EXCEPT ![c] = Idle]
        /\ history' = [history EXCEPT !["failed"] = TRUE, !["visited"] = <<>>]
        /\ UNCHANGED <<rebuiltFrom, saved, pending, resp, view>>

\* The caller's call went through: any cooldown of the identifier ends
report_success(c) ==
    LET id == callers[c]["cand"]
    IN  /\ callers[c]["pc"] = "holding"
        /\ queue' = [queue EXCEPT !["cooling"] = @ \ {id}, !["elapsed"] = @ \ {id}]
        /\ callers' = [callers EXCEPT ![c] = Idle]
        /\ UNCHANGED <<accounts, rebuiltFrom, saved, pending, resp, view, history>>

\* Time passes: the cooldown of a cooling identifier runs out
cooldown_elapses(id) ==
    /\ Cooling(queue, id)
    /\ queue' = [queue EXCEPT !["elapsed"] = @ \cup {id}]
    /\ UNCHANGED <<accounts, rebuiltFrom, saved, pending, resp, view, rotation>>

----------------------------------------------------------------------------
(* Inputs *)

\* JSON bodies of POST /accounts
AddInputs == Dicts({None, <<" ">>, A, <<"a", " ">>}, {None, B, <<" ", "b">>}, {None}, {None})

\* Accounts of a POST /config body
BulkAccounts == Dicts({None, A}, {None, B}, {None}, {None})

\* JSON bodies of POST /config; `keys` are the keys the body holds
UpdateInputs ==
    {[keys |-> {}, accounts |-> <<>>]}
    \cup {[keys |-> {"accounts"}, accounts |-> l] : l \in SeqsUpTo(BulkAccounts, MaxAccounts)}

\* Path parameters of DELETE /accounts/{identifier}: never empty
DeleteInputs == {A, B, <<"c">>}

\* Stored and incoming accounts with credentials
StoredCreds == Dicts({A, B}, {None}, {None, Pw}, {None, Tok})

IncomingCreds ==
    Dicts({A}, {None}, {None, <<>>, Pw2}, {None, Tok2}) \cup {Dict(A, None, Pw2, <<>>)}

MergeInputs ==
    {[keys |-> {}, accounts |-> <<>>]}
    \cup {[keys |-> {"accounts"}, accounts |-> l] : l \in SeqsUpTo(IncomingCreds, MaxIncoming)}

\* Tokens by their length against the preview's
TokenOfLen(n) == [i \in 1..n |-> IF i % 2 = 1 THEN "x" ELSE "y"]

ViewTokens == {None, <<>>, TokenOfLen(1), TokenOfLen(PreviewLen), TokenOfLen(PreviewLen + 1)}

ViewAccounts == Dicts({A}, {None}, {None, Pw}, ViewTokens)

\* Query parameters of GET /accounts
Pages == {0, 1, 2}

PageSizes == {0, 1, 2, MaxPageSize + 1}

\* The accounts of a rotation: the first ones with a token and a password, the
\* others with neither
Roster == <<A, B, <<"c">>, <<"d">>>>

RotationStores ==
    UNION {{[i \in 1..n |-> IF i <= k THEN Dict(Roster[i], None, Pw, Tok)
                            ELSE Dict(Roster[i], None, None, None)] :
               k \in 0..n} : n \in 1..MaxAccounts}

----------------------------------------------------------------------------
(* Specifications *)

\* The administrative layer from an empty configuration
Init ==
    /\ accounts = <<>>
    /\ queue = init_account_queue(<<>>)
    /\ rebuiltFrom = <<>>
    /\ saved = <<>>
    /\ pending = [add_account |-> 0, update_config |-> 0]
    /\ resp = NoResp
    /\ view = NoView
    /\ callers = [c \in Callers |-> Idle]
    /\ history = NoHistory

Next ==
    \/ \E op \in {"add_account", "update_config"} : AwaitJson(op)
    \/ \E data \in AddInputs : add_account(data)
    \/ \E data \in UpdateInputs : update_config(data)
    \/ \E identifier \in DeleteInputs : delete_account(identifier)

Spec == Init /\ [][Next]_vars

\* A POST /config, suspended at its await, on a loaded configuration whose
\* accounts hold credentials
MergeInit ==
    /\ accounts \in SeqsUpTo(StoredCreds, MaxAccounts)
    /\ queue = init_account_queue(accounts)
    /\ rebuiltFrom = accounts
    /\ saved = accounts
    /\ pending = [add_account |-> 0, update_config |-> 1]
    /\ resp = NoResp
    /\ view = NoView
    /\ callers = [c \in Callers |-> Idle]
    /\ history = NoHistory

MergeNext == \E data \in MergeInputs : update_config(data)

MergeSpec == MergeInit /\ [][MergeNext]_vars

\* The two views on a loaded configuration
ViewInit ==
    /\ accounts \in SeqsUpTo(ViewAccounts, MaxAccounts)
    /\ queue = init_account_queue(accounts)
    /\ rebuiltFrom = accounts
    /\ saved = accounts
    /\ pending = [add_account |-> 0, update_config |-> 0]
    /\ resp = NoResp
    /\ view = NoView
    /\ callers = [c \in Callers |-> Idle]
    /\ history = NoHistory

ViewNext ==
    \/ get_config
    \/ \E page \in Pages, page_size \in PageSizes : list_accounts(page, page_size)

ViewSpec == ViewInit /\ [][ViewNext]_vars

\* The rotation over a loaded configuration, the queue as startup built it
QueueInit ==
    /\ accounts \in RotationStores
    /\ queue = init_account_queue(accounts)
    /\ rebuiltFrom = accounts
    /\ saved = accounts
    /\ pending = [add_account |-> 0, update_config |-> 0]
    /\ resp = NoResp
    /\ view = NoView
    /\ callers = [c \in Callers |-> Idle]
    /\ history = NoHistory

QueueNext ==
    \/ \E c \in Callers : next_select(c)
    \/ \E c \in Callers, login_ok \in BOOLEAN : next_finish(c, login_ok)
    \/ \E c \in Callers : report_failure(c)
    \/ \E c \in Callers : report_success(c)
    \/ \E id \in {queue["ids"][i] : i \in 1..Len(queue["ids"])} : cooldown_elapses(id)

QueueSpec == QueueInit /\ [][QueueNext]_vars

----------------------------------------------------------------------------
(* Properties of the administrative layer *)

\* The accounts of `accs` whose email or mobile is the string s
MatchesOf(accs, s) ==
    {i \in 1..Len(accs) : GetEq(accs[i], "email", s) \/ GetEq(accs[i], "mobile", s)}

\* The accounts of `accs` whose identifier is the string s
WithIdentifier(accs, s) == {i \in 1..Len(accs) : get_account_identifier(accs[i]) = s}

\* accs2 is accs without its i-th account, the others as they were and in order
WithoutOne(accs, accs2, i) ==
    /\ Len(accs2) = Len(accs) - 1
    /\ \A j \in 1..Len(accs2) : accs2[j] = IF j < i THEN accs[j] ELSE accs[j + 1]

\* C1: no two accounts of CONFIG["accounts"] share an identifier (email if
\* present, else mobile), whatever adds, bulk replaces and deletes ran.
C1_UniqueIdentifiers ==
    \A i, j \in 1..Len(accounts) :
        i # j => get_account_identifier(accounts[i]) # get_account_identifier(accounts[j])

\* C2: bulk replace merges credentials.  For every incoming account of a body
\* that holds "accounts": when no
\* stored account had its identifier, it is stored as it came; otherwise there
\* is a stored account with that identifier such that the stored password is
\* the incoming one when that is non-empty and that account's password when it
\* is empty or absent, and the same for the token; email and mobile are the
\* incoming ones.
C2_MergeOf(before, incoming, after) ==
    /\ Len(after) = Len(incoming)
    /\ \A i \in 1..Len(incoming) :
          LET inc == incoming[i]
              out == after[i]
              prev == WithIdentifier(before, get_account_identifier(inc))
          IN  IF prev = {}
              THEN out = inc
              ELSE /\ out["email"] = inc["email"]
                   /\ out["mobile"] = inc["mobile"]
                   /\ \E j \in prev :
                         /\ Get(out, "password") =
                               IF Get(inc, "password") # <<>> THEN inc["password"]
                               ELSE Get(before[j], "password")
                         /\ Get(out, "token") =
                               IF Get(inc, "token") # <<>> THEN inc["token"]
                               ELSE Get(before[j], "token")

C2_CredentialPreservingMerge ==
    [][\A data \in MergeInputs :
          "accounts" \in data["keys"] /\ update_config(data) =>
              C2_MergeOf(accounts, data["accounts"], accounts')]_vars

\* C2 witness: a bulk replace stored an account with the incoming password and
\* the token of the stored account it replaced.
C2_Witness ==
    /\ resp["op"] = "update_config"
    /\ \E i \in 1..Len(accounts) :
          accounts[i]["password"] = Pw2 /\ accounts[i]["token"] = Tok

\* C3: at every point where a request can run, the queue is the one rebuilt
\* from the current account list, and a handler that changed the list rebuilt
\* the queue after the change and before it saved the configuration.
C3_QueueRebuiltFromCurrentAccounts ==
    /\ rebuiltFrom = accounts
    /\ queue["ids"] = Identifiers(accounts)
    /\ \A i \in 1..Len(resp["effects"]) :
          resp["effects"][i] = "mutate" =>
              \E j, k \in 1..Len(resp["effects"]) :
                  /\ i < j /\ j < k
                  /\ resp["effects"][j] = "rebuild"
                  /\ resp["effects"][k] = "save"

\* C3 witness: a handler changed the account list while another request was
\* suspended at its await.
C3_Witness ==
    /\ pending["add_account"] + pending["update_config"] > 0
    /\ resp["status"] = 200
    /\ "mutate" \in {resp["effects"][i] : i \in 1..Len(resp["effects"])}
    /\ accounts # <<>>

\* C4: a rejected add_account (no email and no mobile after stripping, or an
\* account with that email or that mobile exists) or delete_account (no
\* account has that email or mobile) answers 400 / 404, leaves the account
\* list, the queue and the saved configuration as they were and rebuilds and
\* saves nothing.
C4_RejectedChangesNothing ==
    [][/\ \A data \in AddInputs :
             add_account(data) =>
                 LET e == Strip(Get(data, "email"))
                     m == Strip(Get(data, "mobile"))
                     bad == \/ e = <<>> /\ m = <<>>
                            \/ e # <<>> /\ \E i \in 1..Len(accounts) : Get(accounts[i], "email") = e
                            \/ m # <<>> /\ \E i \in 1..Len(accounts) : Get(accounts[i], "mobile") = m
                 IN  bad => resp'["status"] = 400
       /\ \A identifier \in DeleteInputs :
             delete_account(identifier) =>
                 (MatchesOf(accounts, identifier) = {} => resp'["status"] = 404)
       /\ resp'["status"] \in {400, 404} =>
             /\ accounts' = accounts
             /\ queue' = queue
             /\ rebuiltFrom' = rebuiltFrom
             /\ saved' = saved
             /\ resp'["effects"] = <<>>]_vars

\* C4 witness: an add_account was rejected for a duplicate while the store
\* held accounts.
C4_Witness ==
    /\ resp["op"] = "add_account"
    /\ resp["status"] = 400
    /\ resp["detail"] \in {"email_exists", "mobile_exists"}
    /\ accounts # <<>>

\* C5: every account of CONFIG["accounts"] has a non-empty identifier.
C5_NonEmptyIdentifiers ==
    \A i \in 1..Len(accounts) : get_account_identifier(accounts[i]) # <<>>

\* C6 as claimed: delete_account answers 404 exactly when no account has the
\* argument as its identifier, and otherwise removes one account with that
\* identifier and nothing else.
C6_DeleteByIdentifier ==
    [][\A identifier \in DeleteInputs :
          delete_account(identifier) =>
              IF WithIdentifier(accounts, identifier) = {}
              THEN resp'["status"] = 404 /\ accounts' = accounts
              ELSE /\ resp'["status"] = 200
                   /\ \E i \in WithIdentifier(accounts, identifier) :
                         WithoutOne(accounts, accounts', i)]_vars

\* C6 as amended: delete_account answers 404 exactly when no account has the
\* argument as its email or as its mobile, and otherwise removes the first
\* such account: the list is one shorter and every other account stays, in
\* the same order.
C6_DeleteByEmailOrMobile ==
    [][\A identifier \in DeleteInputs :
          delete_account(identifier) =>
              IF MatchesOf(accounts, identifier) = {}
              THEN resp'["status"] = 404 /\ accounts' = accounts
              ELSE /\ resp'["status"] = 200
                   /\ \E i \in MatchesOf(accounts, identifier) :
                         /\ \A j \in MatchesOf(accounts, identifier) : i <= j
                         /\ WithoutOne(accounts, accounts', i)]_vars

\* C6 witness: a delete succeeded and left other accounts in the store.
C6_Witness ==
    /\ resp["op"] = "delete_account"
    /\ resp["status"] = 200
    /\ accounts # <<>>

\* t occurs in s as a run of consecutive characters
Contains(s, t) == \E i \in 0..(Len(s) - Len(t)) : SubSeq(s, i + 1, i + Len(t)) = t

\* The stored account that the k-th item of the last view shows: get_config
\* lists the accounts in order, list_accounts pages through them newest first
ViewSource(k) ==
    IF view["op"] = "get_config" THEN accounts[k]
    ELSE accounts[Len(accounts) + 1 - ((view["page"] - 1) * view["page_size"] + k)]

\* C7: an item of a redacted view carries email, mobile, has_password,
\* has_token and token_preview only; no field holds the account's password,
\* and the preview of a token is a proper prefix of it followed by "...", so
\* it never holds the complete token.
C7_ViewsRedacted ==
    \A k \in 1..Len(view["items"]) :
        LET item == view["items"][k]
            acc == ViewSource(k)
            token == Get(acc, "token")
            password == Get(acc, "password")
            shown == item["token_preview"]
        IN  /\ DOMAIN item = {"email", "mobile", "has_password", "has_token", "token_preview"}
            /\ item["email"] = Get(acc, "email")
            /\ item["mobile"] = Get(acc, "mobile")
            /\ item["has_password"] = (password # <<>>)
            /\ item["has_token"] = (token # <<>>)
            /\ password # <<>> =>
                   \A f \in {"email", "mobile", "token_preview"} : ~Contains(item[f], password)
            /\ token = <<>> => shown = <<>>
            /\ token # <<>> =>
                   /\ Len(shown) >= Len(Ellipsis)
                   /\ Len(shown) - Len(Ellipsis) < Len(token)
                   /\ shown = SubSeq(token, 1, Len(shown) - Len(Ellipsis)) \o Ellipsis
                   /\ ~Contains(shown, token)

----------------------------------------------------------------------------
(* Properties of the rotation queue *)

IdSet(q) == {q["ids"][i] : i \in 1..Len(q["ids"])}

\* Caller c selected a candidate in this step
Selects(c) == callers'[c]["pc"] = "ensuring" /\ callers'[c] # callers[c]

\* C8: while nothing has failed, the k-th selection of next() is the k-th
\* identifier of the queue in circular insertion order: N calls over N
\* accounts visit each account once, in order, before any is visited again.
C8_Circularity ==
    ~history["failed"] =>
        \A k \in 1..Len(history["visited"]) :
            history["visited"][k] = queue["ids"][((k - 1) % Len(queue["ids"])) + 1]

\* C8 witness: with several accounts and no failure, every account has been
\* visited and the first one has come round again.
C8_Witness ==
    /\ ~history["failed"]
    /\ Len(queue["ids"]) >= 2
    /\ Len(history["visited"]) > Len(queue["ids"])

C10_ExhaustionBounded ==
    [][\A c \in Callers :
          /\ next_select(c) =>
                IF \A id \in IdSet(queue) : Cooling(queue, id)
                THEN callers'[c]["pc"] = "none"
                ELSE callers'[c]["pc"] = "ensuring"
          /\ \A login_ok \in BOOLEAN :
                next_finish(c, login_ok) =>
                    LET me == callers[c]
                        after == callers'[c]
                    IN  \/ after["pc"] = "holding"
                        \/ /\ after["pc"] = "none"
                           /\ \A id \in IdSet(queue) :
                                 id \in me["tried"] \cup {me["cand"]} \/ Cooling(queue', id)
                        \/ /\ after["pc"] = "ensuring"
                           /\ me["cand"] \notin me["tried"]
                           /\ after["tried"] = me["tried"] \cup {me["cand"]}
          /\ callers'[c]["pc"] = "ensuring" =>
                /\ callers'[c]["tried"] \subseteq IdSet(queue')
                /\ callers'[c]["cand"] \in IdSet(queue') \ callers'[c]["tried"]]_vars

\* C10 witness: with several accounts, all of them Cooling, a call of next()
\* ended with NoUsableAccount.
C10_Witness ==
    /\ Len(queue["ids"]) >= 2
    /\ \A id \in IdSet(queue) : Cooling(queue, id)
    /\ \E c \in Callers : callers[c]["pc"] = "none"

====
